---- MODULE Spec2Model ----
(***************************************************************************)
(* A model of the JobSummarizer repository.                                *)
(*                                                                         *)
(*   src/accuracy.py    normalize_value, job_data, load_json_output and    *)
(*                      the unittest harness TestJsonConsolidation with    *)
(*                      its __main__ block                                 *)
(*   src/summarizer.py  JobPostingExtractor.extract_job_details            *)
(*                                                                         *)
(* A Python str is a sequence of characters.  An ASCII character is the    *)
(* one-character string holding it; a character outside ASCII is named by  *)
(* its code point ("U+20B9" is the rupee sign).                            *)
(*                                                                         *)
(* A Python value is a record [kind, v]:                                   *)
(*   kind "none"   v = <<>>                                                *)
(*   kind "str"    v = the characters                                      *)
(*   kind "int"    v = the integer                                         *)
(*   kind "float"  v = the number of tenths (v = 35 is 3.5)                *)
(*   kind "bool"   v = TRUE or FALSE                                       *)
(*   kind "list"   v = the sequence of element values                      *)
(*   kind "dict"   v = the sequence of items [k, val] in insertion order   *)
(***************************************************************************)
EXTENDS Integers, Sequences, FiniteSets, TLC

VARIABLES
    \* normalize_value called on its own
    value,          \* the argument of normalize_value
    out,            \* normalize_value(value)
    out2,           \* normalize_value(out)
    npc,            \* "input" | "normalized" | "renormalized" | "off"
    \* job_data called on its own
    job_list,       \* the records: a sequence of dicts keyed by field name
    fields,         \* the requested field names
    consolidated,   \* job_data(job_list, fields)
    cpc,            \* "input" | "done" | "off"
    \* the run of accuracy.py as a script
    fileState,      \* the JSON output file: "missing" | "malformed" | "not_list" | "list"
    fileData,       \* what the file decodes to when fileState = "list"
    expectedOnDisk, \* what load_expected_test_data returns: file name -> field -> str
    all_expected,   \* TestJsonConsolidation._all_expected_test_data
    job_data_list,  \* setUpClass's local: what load_json_output returned
    consolidated_data,  \* TestJsonConsolidation._consolidated_data
    expected_patterns,  \* TestJsonConsolidation._expected_patterns_for_file
    classResult,    \* setUpClass: "pending" | "ok" | the exception it raised
    results,        \* what the runner recorded, one record per test method run
    printed,        \* the diagnostics printed so far
    exitStatus,     \* the exit status of the process, -1 while it runs
    hpc,            \* "main" | "setUpClass" | "test" | "exit" | "done" | "off"
    \* one call of JobPostingExtractor.extract_job_details
    pdfExists,      \* whether the PDF file is there
    response,       \* the local variable: Unbound, or what requests.post returned
    result,         \* how the call ended: [kind, v, exc]
    epc             \* the place of the call in the method, "off" when not called

nvars == <<value, out, out2, npc>>
cvars == <<job_list, fields, consolidated, cpc>>
hvars == <<fileState, fileData, expectedOnDisk, all_expected, job_data_list,
           consolidated_data, expected_patterns, classResult, results, printed,
           exitStatus, hpc>>
evars == <<pdfExists, response, result, epc>>
vars  == <<nvars, cvars, hvars, evars>>

-----------------------------------------------------------------------------
(* Characters *)

RUPEE    == "U+20B9"     \* the rupee sign
ACIRC    == "U+00E2"     \* a with circumflex, first character of line 75's class
CAP_ACIRC == "U+00C2"    \* its upper case
LOWQUOTE == "U+201A"     \* single low-9 quotation mark, second character
SUPONE   == "U+00B9"     \* superscript one, third character
TAB      == "\t"
NL       == "\n"

LowerLetters == {"a", "b", "c", "d", "e", "f", "i", "j", "k", "l", "n", "o", "r", "s", "t", "u"}
UpperLetters == {"F", "S", "T"}
DigitChars   == {"0", "1", "2", "3", "4", "5", "6", "7", "8", "9"}

\* str.lower() on one character
Lower(c) ==
    CASE c = "S" -> "s"
      [] c = "T" -> "t"
      [] c = "F" -> "f"
      [] c = CAP_ACIRC -> ACIRC
      [] OTHER -> c

\* the regular expression class \s (and what str.strip() strips)
IsSpace(c) == c \in {" ", TAB, NL}

\* the regular expression class \w on str patterns: str.isalnum() or "_"
IsWord(c) ==
    \/ c \in LowerLetters \cup UpperLetters \cup DigitChars \cup {"_"}
    \/ c \in {ACIRC, CAP_ACIRC, SUPONE}

-----------------------------------------------------------------------------
(* str operations *)

RECURSIVE LStrip(_)
LStrip(t) == IF t # <<>> /\ IsSpace(Head(t)) THEN LStrip(Tail(t)) ELSE t

RECURSIVE RStrip(_)
RStrip(t) ==
    IF t # <<>> /\ IsSpace(t[Len(t)]) THEN RStrip(SubSeq(t, 1, Len(t) - 1)) ELSE t

\* str.strip()
Strip(t) == RStrip(LStrip(t))

\* str.lower()
LowerStr(t) == [i \in 1..Len(t) |-> Lower(t[i])]

\* re.sub(r'[class]', repl, t) for a class of single characters: each
\* character of the class becomes repl (the two halves are done apart)
RECURSIVE SubClass(_, _, _)
SubClass(t, class, repl) ==
    IF t = <<>> THEN <<>>
    ELSE IF Len(t) = 1 THEN (IF t[1] \in class THEN repl ELSE t)
    ELSE LET h == Len(t) \div 2
         IN  SubClass(SubSeq(t, 1, h), class, repl)
             \o SubClass(SubSeq(t, h + 1, Len(t)), class, repl)

\* re.sub(r'[^\w\s]', ' ', t)
SubNonWordNonSpace(t) ==
    [i \in 1..Len(t) |-> IF IsWord(t[i]) \/ IsSpace(t[i]) THEN t[i] ELSE " "]

\* re.sub(r'\s+', ' ', t): the first character of a run of white space
\* becomes a space and the rest of the run goes
NotDropped(c) == c # "DROPPED"

CollapseSpaces(t) ==
    SelectSeq([i \in 1..Len(t) |->
                  IF ~IsSpace(t[i]) THEN t[i]
                  ELSE IF i > 1 /\ IsSpace(t[i - 1]) THEN "DROPPED"
                  ELSE " "],
              NotDropped)

StartsWith(t, p) == Len(t) >= Len(p) /\ SubSeq(t, 1, Len(p)) = p

\* str.replace(old, new): the leftmost occurrence is replaced, then those
\* of the rest of the str after it
RECURSIVE Replace(_, _, _)
Replace(t, old, new) ==
    LET starts == {i \in 1..(Len(t) - Len(old) + 1) : SubSeq(t, i, i + Len(old) - 1) = old}
    IN  IF starts = {} THEN t
        ELSE LET first == CHOOSE i \in starts : \A j \in starts : i <= j
             IN  SubSeq(t, 1, first - 1) \o new
                 \o Replace(SubSeq(t, first + Len(old), Len(t)), old, new)

\* t contains p as a substring
Contains(t, p) == \E i \in 1..(Len(t) - Len(p) + 1) : SubSeq(t, i, i + Len(p) - 1) = p

\* sep.join(parts)
RECURSIVE Join(_, _)
Join(parts, sep) ==
    IF parts = <<>> THEN <<>>
    ELSE IF Len(parts) = 1 THEN parts[1]
    ELSE parts[1] \o sep \o Join(Tail(parts), sep)

-----------------------------------------------------------------------------
(* Conversions to str *)

Digit(d) == <<"0", "1", "2", "3", "4", "5", "6", "7", "8", "9">>[d + 1]

RECURSIVE NatStr(_)
NatStr(n) == IF n < 10 THEN <<Digit(n)>> ELSE NatStr(n \div 10) \o <<Digit(n % 10)>>

\* str(n) of an int
IntStr(n) == IF n < 0 THEN <<"-">> \o NatStr(-n) ELSE NatStr(n)

\* str(x) of a float with one decimal, given in tenths: str(-0.5) = "-0.5"
FloatStr(t) ==
    LET a == IF t < 0 THEN -t ELSE t
    IN  (IF t < 0 THEN <<"-">> ELSE <<>>) \o NatStr(a \div 10) \o <<".", Digit(a % 10)>>

\* str(value) of a scalar
PyStr(x) ==
    CASE x.kind = "str"   -> x.v
      [] x.kind = "int"   -> IntStr(x.v)
      [] x.kind = "float" -> FloatStr(x.v)
      [] x.kind = "bool"  -> IF x.v THEN <<"T", "r", "u", "e">>
                                    ELSE <<"F", "a", "l", "s", "e">>
      [] x.kind = "none"  -> <<"N", "o", "n", "e">>

\* the characters of the model in code point order
CharOrder ==
    <<TAB, NL, " ", "!", "\"", "$", ",", "-", ".",
      "0", "1", "2", "3", "4", "5", "6", "7", "8", "9", ":",
      "F", "N", "S", "T", "[", "\\", "]", "_",
      "a", "b", "c", "d", "e", "f", "i", "j", "k", "l", "n", "o", "r", "s", "t", "u",
      "{", "|", "}", SUPONE, CAP_ACIRC, ACIRC, LOWQUOTE, RUPEE>>

Rank(c) == CHOOSE i \in 1..Len(CharOrder) : CharOrder[i] = c

\* a < b for two str, as Python compares them
RECURSIVE StrLess(_, _)
StrLess(a, b) ==
    IF b = <<>> THEN FALSE
    ELSE IF a = <<>> THEN TRUE
    ELSE IF Head(a) = Head(b) THEN StrLess(Tail(a), Tail(b))
    ELSE Rank(Head(a)) < Rank(Head(b))

\* json.dumps of one character of a str (ensure_ascii)
JsonEscapeChar(c) ==
    CASE c = "\""      -> <<"\\", "\"">>
      [] c = "\\"      -> <<"\\", "\\">>
      [] c = TAB       -> <<"\\", "t">>
      [] c = NL        -> <<"\\", "n">>
      [] c = RUPEE     -> <<"\\", "u", "2", "0", "b", "9">>
      [] c = ACIRC     -> <<"\\", "u", "0", "0", "e", "2">>
      [] c = CAP_ACIRC -> <<"\\", "u", "0", "0", "c", "2">>
      [] c = LOWQUOTE  -> <<"\\", "u", "2", "0", "1", "a">>
      [] c = SUPONE    -> <<"\\", "u", "0", "0", "b", "9">>
      [] OTHER         -> <<c>>

RECURSIVE JsonEscape(_)
JsonEscape(t) == IF t = <<>> THEN <<>> ELSE JsonEscapeChar(Head(t)) \o JsonEscape(Tail(t))

JsonStr(t) == <<"\"">> \o JsonEscape(t) \o <<"\"">>

\* sorted(items) by key: insertion into a sorted sequence
RECURSIVE InsertItem(_, _)
InsertItem(sorted, item) ==
    IF sorted = <<>> THEN <<item>>
    ELSE IF StrLess(item.k, Head(sorted).k) THEN <<item>> \o sorted
    ELSE <<Head(sorted)>> \o InsertItem(Tail(sorted), item)

RECURSIVE SortItems(_)
SortItems(items) ==
    IF items = <<>> THEN <<>>
    ELSE InsertItem(SortItems(SubSeq(items, 1, Len(items) - 1)), items[Len(items)])

\* json.dumps(x, sort_keys=True)
RECURSIVE JsonDumps(_)
RECURSIVE JsonList(_)
RECURSIVE JsonItems(_)
JsonDumps(x) ==
    CASE x.kind = "none"  -> <<"n", "u", "l", "l">>
      [] x.kind = "bool"  -> IF x.v THEN <<"t", "r", "u", "e">>
                                    ELSE <<"f", "a", "l", "s", "e">>
      [] x.kind = "int"   -> IntStr(x.v)
      [] x.kind = "float" -> FloatStr(x.v)
      [] x.kind = "str"   -> JsonStr(x.v)
      [] x.kind = "list"  -> <<"[">> \o Join(JsonList(x.v), <<",", " ">>) \o <<"]">>
      [] x.kind = "dict"  -> <<"{">> \o Join(JsonItems(SortItems(x.v)), <<",", " ">>) \o <<"}">>
JsonList(xs) == IF xs = <<>> THEN <<>> ELSE <<JsonDumps(Head(xs))>> \o JsonList(Tail(xs))
JsonItems(items) ==
    IF items = <<>> THEN <<>>
    ELSE <<JsonStr(Head(items).k) \o <<":", " ">> \o JsonDumps(Head(items).val)>>
         \o JsonItems(Tail(items))

-----------------------------------------------------------------------------
(* normalize_value, src/accuracy.py lines 48-82 *)

\* lines 65-82 with lines 77-78 moved before line 75
CleanTextSeniorFirst(raw) ==
    LET t0 == Strip(LowerStr(raw))
        t1 == SubClass(t0, {","}, <<>>)
        t2 == SubClass(t1, {"-", "|", ".", ":"}, <<" ">>)
        t3 == SubNonWordNonSpace(t2)
        t4 == Replace(t3, <<"s", "e", "n", "i", "o", "r">>, <<"s", "r">>)
        t5 == Replace(t4, <<"j", "u", "n", "i", "o", "r">>, <<"j", "r">>)
        t6 == SubClass(t5, {ACIRC, LOWQUOTE, SUPONE}, <<"r", "s">>)
        t7 == SubClass(t6, {"$"}, <<"u", "s", "d">>)
    IN  Strip(CollapseSpaces(t7))

\* lines 65-82: the cleaning of the text of a scalar
CleanText(raw) ==
    LET t0 == Strip(LowerStr(raw))                                \* line 65
        t1 == SubClass(t0, {","}, <<>>)                           \* line 72
        t2 == SubClass(t1, {"-", "|", ".", ":"}, <<" ">>)         \* line 73
        t3 == SubNonWordNonSpace(t2)                              \* line 74
        t4 == SubClass(t3, {ACIRC, LOWQUOTE, SUPONE}, <<"r", "s">>)   \* line 75
        t5 == SubClass(t4, {"$"}, <<"u", "s", "d">>)              \* line 76
        t6 == Replace(t5, <<"s", "e", "n", "i", "o", "r">>, <<"s", "r">>)  \* line 77
        t7 == Replace(t6, <<"j", "u", "n", "i", "o", "r">>, <<"j", "r">>)  \* line 78
    IN  Strip(CollapseSpaces(t7))                                 \* line 81

\* line 57's filter: item is not None and str(item).strip() != "".
\* str() of a list starts with "[" and of a dict with "{": never blank.
KeepItem(item) ==
    /\ item.kind # "none"
    /\ item.kind \in {"list", "dict"} \/ Strip(PyStr(item)) # <<>>

RECURSIVE normalize_value(_)
RECURSIVE NormalizedItems(_)
normalize_value(x) ==
    IF x.kind = "none" THEN <<>>                                  \* lines 52-53
    ELSE IF x.kind = "list"
         THEN Join(NormalizedItems(x.v), <<" ">>)                 \* lines 55-58
    ELSE IF x.kind = "dict" THEN CleanText(JsonDumps(x))          \* lines 60-62
    ELSE CleanText(PyStr(x))
NormalizedItems(items) ==
    IF items = <<>> THEN <<>>
    ELSE (IF KeepItem(Head(items)) THEN <<normalize_value(Head(items))>> ELSE <<>>)
         \o NormalizedItems(Tail(items))

\* constructors of values
NoneV     == [kind |-> "none", v |-> <<>>]
StrV(t)   == [kind |-> "str", v |-> t]
IntV(n)   == [kind |-> "int", v |-> n]
FloatV(t) == [kind |-> "float", v |-> t]
BoolV(b)  == [kind |-> "bool", v |-> b]
ListV(xs) == [kind |-> "list", v |-> xs]
DictV(is) == [kind |-> "dict", v |-> is]

-----------------------------------------------------------------------------
(* Inputs of normalize_value *)

MaxChunks == 3      \* a str input is at most this many chunks of ChunkPool
MaxItems  == 3      \* a list input has at most this many items

SENIOR == <<"s", "e", "n", "i", "o", "r">>
JUNIOR == <<"j", "u", "n", "i", "o", "r">>

ChunkPool ==
    << SENIOR, JUNIOR, <<"s", "e", "n", "i", "o">>, <<"r">>, <<"S">>,
       <<ACIRC>>, <<RUPEE>>, <<"$">>, <<" ">>, <<"-">>, <<",">>, <<"5">>,
       <<TAB>>, <<LOWQUOTE>> >>

RECURSIVE Concat(_)
Concat(parts) == IF parts = <<>> THEN <<>> ELSE Head(parts) \o Concat(Tail(parts))

\* the str made of the chunks whose indices are idx
ChunkText(idx) == Concat([i \in 1..Len(idx) |-> ChunkPool[idx[i]]])

IntPool   == {-5, 0, 12}
FloatPool == {-5, 35, 20}

\* the items a list input is made of
ItemPool ==
    << StrV(<<"a">>), StrV(<<"S", "r">>), StrV(<<"-">>), StrV(<<>>), StrV(<<" ">>),
       NoneV, ListV(<<>>), IntV(7) >>

\* dict inputs
DictPool ==
    << DictV(<<>>),
       DictV(<< [k |-> <<"b">>, val |-> IntV(1)], [k |-> <<"a">>, val |-> StrV(<<RUPEE, "5">>)] >>),
       DictV(<< [k |-> <<"k">>, val |-> ListV(<<BoolV(TRUE), NoneV>>)] >>) >>

ScalarKinds == {"str", "int", "float", "bool"}

NormalizeInit ==
    /\ npc = "input"
    /\ out = <<>>
    /\ out2 = <<>>
    /\ \/ \E n \in 0..MaxChunks : \E idx \in [1..n -> 1..Len(ChunkPool)] :
            value = StrV(ChunkText(idx))
       \/ \E n \in IntPool : value = IntV(n)
       \/ \E t \in FloatPool : value = FloatV(t)
       \/ \E b \in BOOLEAN : value = BoolV(b)
       \/ value = NoneV
       \/ \E n \in 0..MaxItems : \E idx \in [1..n -> 1..Len(ItemPool)] :
            value = ListV([i \in 1..n |-> ItemPool[idx[i]]])
       \/ \E i \in 1..Len(DictPool) : value = DictPool[i]

\* normalize_value is not called on its own
NormalizeOff == npc = "off" /\ value = NoneV /\ out = <<>> /\ out2 = <<>>

\* out = normalize_value(value)
Normalize ==
    /\ npc = "input"
    /\ out' = normalize_value(value)
    /\ npc' = "normalized"
    /\ UNCHANGED <<value, out2>>
    /\ UNCHANGED <<cvars, hvars, evars>>

\* out2 = normalize_value(out): the str returned is normalized again
Renormalize ==
    /\ npc = "normalized"
    /\ out2' = normalize_value(StrV(out))
    /\ npc' = "renormalized"
    /\ UNCHANGED <<value, out>>
    /\ UNCHANGED <<cvars, hvars, evars>>


-----------------------------------------------------------------------------
(* job_data, src/accuracy.py lines 84-104 *)

FIELDS_TO_CONSOLIDATE ==
    << "Company name", "Job title", "Number of openings", "Reservation details",
       "Location", "Qualifications required", "Skills required", "Age limit",
       "Salary or compensation details", "Application deadline",
       "Mode of application", "Contact details" >>

Range(s) == {s[i] : i \in 1..Len(s)}

\* job.get(field)
Get(job, field) == IF field \in DOMAIN job THEN job[field] ELSE NoneV

\* lines 93-97: one pass of the inner loop's body
PrependField(agg, job, field) ==
    LET normalized_val == normalize_value(Get(job, field))
    IN  IF normalized_val # <<>>
        THEN [agg EXCEPT ![field] = <<normalized_val>> \o @]
        ELSE agg

AppendField(agg, job, field) ==
    LET normalized_val == normalize_value(Get(job, field))
    IN  IF normalized_val # <<>>
        THEN [agg EXCEPT ![field] = Append(@, normalized_val)]
        ELSE agg

\* line 92: for field in fields
RECURSIVE ForFields(_, _, _)
ForFields(agg, job, fs) ==
    IF fs = <<>> THEN agg
    ELSE ForFields(AppendField(agg, job, Head(fs)), job, Tail(fs))

\* line 91: for job in job_list
RECURSIVE ForJobs(_, _, _)
ForJobs(agg, jobs, fs) ==
    IF jobs = <<>> THEN agg
    ELSE ForJobs(ForFields(agg, Head(jobs), fs), Tail(jobs), fs)

\* lines 100-104 without the test of line 102
KeepEmptyFields(agg) == [f \in DOMAIN agg |-> Join(agg[f], <<" ">>)]

\* lines 100-104: the fields that collected values, each joined by a space
ConsolidatedOutput(agg) ==
    [f \in {g \in DOMAIN agg : agg[g] # <<>>} |-> Join(agg[f], <<" ">>)]

job_data(jobs, fs) ==
    ConsolidatedOutput(ForJobs([f \in Range(fs) |-> <<>>], jobs, fs))

-----------------------------------------------------------------------------
(* Inputs of job_data *)

MaxJobs == 2        \* job_list has at most this many records

\* the keys a record of the model may hold
JobKeys == {FIELDS_TO_CONSOLIDATE[1], FIELDS_TO_CONSOLIDATE[2]}

\* the values a record may hold under a key
FieldValuePool == << StrV(<<"a">>), StrV(<<"b">>), StrV(<<"-">>), NoneV >>

\* the record that holds FieldValuePool[c[k]] under each key k with c[k] > 0
MakeJob(c) == [k \in {j \in JobKeys : c[j] # 0} |-> FieldValuePool[c[k]]]

\* the field lists requested: those of at most two of three names, and the
\* program's own list
FieldLists ==
    LET names == {FIELDS_TO_CONSOLIDATE[1], FIELDS_TO_CONSOLIDATE[2], FIELDS_TO_CONSOLIDATE[5]}
    IN  {<<>>} \cup {<<a>> : a \in names}
        \cup {<<p[1], p[2]>> : p \in {q \in names \X names : q[1] # q[2]}}
        \cup {FIELDS_TO_CONSOLIDATE}

ConsolidateInit ==
    /\ cpc = "input"
    /\ consolidated = <<>>
    /\ fields \in FieldLists
    /\ \E n \in 0..MaxJobs :
         \E cs \in [1..n -> [JobKeys -> 0..Len(FieldValuePool)]] :
            job_list = [i \in 1..n |-> MakeJob(cs[i])]

\* job_data is not called on its own
ConsolidateOff == cpc = "off" /\ job_list = <<>> /\ fields = <<>> /\ consolidated = <<>>

\* consolidated = job_data(job_list, fields)
Consolidate ==
    /\ cpc = "input"
    /\ consolidated' = job_data(job_list, fields)
    /\ cpc' = "done"
    /\ UNCHANGED <<job_list, fields>>
    /\ UNCHANGED <<nvars, hvars, evars>>


-----------------------------------------------------------------------------
(* The run of accuracy.py: load_json_output, TestJsonConsolidation, __main__ *)

FUZZY_MATCH_THRESHOLD == 50
DISPLAY_LIMIT == 200

JSON_FILE_NAME == "PDF1.json"

\* load_json_output, lines 25-44: the value returned and the diagnostic printed
load_json_output(state, data) ==
    CASE state = "missing"   -> [ret |-> NoneV, diag |-> {"Error: JSON file not found"}]
      [] state = "malformed" -> [ret |-> NoneV, diag |-> {"Error: Could not decode JSON"}]
      [] state = "not_list"  -> [ret |-> NoneV, diag |-> {"Error: JSON is not a list of objects"}]
      [] state = "list"      -> [ret |-> ListV(data), diag |-> {}]

\* the test methods in the order unittest runs them (sorted by method name),
\* each named by the field it evaluates, lines 195-229
TestOrder ==
    << "Age limit", "Application deadline", "Company name", "Contact details",
       "Job title", "Location", "Mode of application", "Number of openings",
       "Qualifications required", "Reservation details",
       "Salary or compensation details", "Skills required" >>

NumTests == 3       \* the suite runs the first NumTests test methods

\* the scores the model lets fuzz.token_set_ratio return
ScorePool == {0, 49, 50, 100}

\* fuzz.token_set_ratio(s1, s2): 0 when a string is empty, 100 for equal
\* strings; the library decides the score of every other pair
RatioOutcomes(s1, s2) ==
    IF s1 = <<>> \/ s2 = <<>> THEN {0}
    ELSE IF s1 = s2 THEN {100}
    ELSE ScorePool

\* line 189: normalized_consolidated[:200]
Truncate(t) == IF Len(t) > DISPLAY_LIMIT THEN SubSeq(t, 1, DISPLAY_LIMIT) ELSE t

\* line 186: assertGreaterEqual(similarity_score, FUZZY_MATCH_THRESHOLD)
ScorePassesStrictly(score) == score > FUZZY_MATCH_THRESHOLD

ScorePasses(score) == score >= FUZZY_MATCH_THRESHOLD

\* _evaluate_field, lines 168-192, with the score the library returned:
\* what the runner records for the test method
evaluate_field(field_name, consolidated_map, patterns, score) ==
    LET consolidated_value ==
            IF field_name \in DOMAIN consolidated_map
            THEN consolidated_map[field_name] ELSE <<>>             \* line 173
        has_pattern == field_name \in DOMAIN patterns               \* line 174
        expected_pattern == IF has_pattern THEN patterns[field_name] ELSE <<>>
    IN  IF has_pattern /\ expected_pattern # <<>>                   \* line 176
        THEN [ field |-> field_name,
               branch |-> "compared",
               ratioArgs |-> <<consolidated_value, expected_pattern>>,
               score |-> score,
               reported |-> IF ScorePasses(score) THEN "ok" ELSE "FAIL",
               message |-> IF ScorePasses(score) THEN <<>>
                           ELSE << expected_pattern, Truncate(consolidated_value) >> ]
        ELSE [ field |-> field_name,
               branch |-> "no_expectation",
               ratioArgs |-> <<>>,
               score |-> score,
               reported |-> "ok",
               message |-> <<>> ]

\* the scores line 183 can produce for a field; -1 when the line is not run
ScoresFor(field_name, consolidated_map, patterns) ==
    IF field_name \in DOMAIN patterns /\ patterns[field_name] # <<>>
    THEN RatioOutcomes(IF field_name \in DOMAIN consolidated_map
                       THEN consolidated_map[field_name] ELSE <<>>,
                       patterns[field_name])
    ELSE {-1}

-----------------------------------------------------------------------------
(* Inputs of the run *)

LongText == [i \in 1..(DISPLAY_LIMIT + 1) |-> "a"]

\* what the JSON output file may decode to
FilePool ==
    << <<>>,
       << ("Company name" :> StrV(<<"a">>)) @@ ("Age limit" :> StrV(<<"-">>)) >>,
       << ("Company name" :> StrV(<<"a">>)),
          ("Company name" :> StrV(<<"b">>)) @@ ("Age limit" :> IntV(12)) >>,
       << ("Company name" :> StrV(LongText)) >> >>

\* the expected strings of a field; index 0 is no entry for the field
PatternPool == << <<>>, <<"a">>, <<"a", " ", "b">> >>

TestedFields == {TestOrder[i] : i \in 1..NumTests}

\* the field -> str table that holds PatternPool[c[f]] for each f with c[f] > 0
MakePatterns(c) == [f \in {g \in TestedFields : c[g] # 0} |-> PatternPool[c[f]]]

RunInit ==
    /\ hpc = "main"
    /\ fileState \in {"missing", "malformed", "not_list", "list"}
    /\ \E i \in 1..Len(FilePool) :
         fileData = IF fileState = "list" THEN FilePool[i] ELSE <<>>
    /\ \/ expectedOnDisk = <<>>
       \/ \E c \in [TestedFields -> 0..Len(PatternPool)] :
            expectedOnDisk = [n \in {JSON_FILE_NAME} |-> MakePatterns(c)]
    /\ all_expected = <<>>
    /\ job_data_list = NoneV
    /\ consolidated_data = <<>>
    /\ expected_patterns = <<>>
    /\ classResult = "pending"
    /\ results = <<>>
    /\ printed = {}
    /\ exitStatus = -1

\* accuracy.py is not run
RunOff ==
    /\ hpc = "off"
    /\ fileState = "missing"
    /\ fileData = <<>>
    /\ expectedOnDisk = <<>>
    /\ all_expected = <<>>
    /\ job_data_list = NoneV
    /\ consolidated_data = <<>>
    /\ expected_patterns = <<>>
    /\ classResult = "pending"
    /\ results = <<>>
    /\ printed = {}
    /\ exitStatus = -1

\* __main__, lines 242-256: the expected data is loaded and the suite built
Main ==
    /\ hpc = "main"
    /\ all_expected' = expectedOnDisk
    /\ printed' = IF DOMAIN expectedOnDisk = {}
                  THEN printed \cup {"WARNING: No expected test data loaded"}
                  ELSE printed
    /\ hpc' = "setUpClass"
    /\ UNCHANGED <<fileState, fileData, expectedOnDisk, job_data_list,
                   consolidated_data, expected_patterns, classResult, results,
                   exitStatus>>
    /\ UNCHANGED <<nvars, cvars, evars>>

\* setUpClass, lines 150-160.  job_data iterates over what load_json_output
\* returned: iterating over None raises TypeError, the runner records the
\* error of the class and runs none of its test methods.
SetUpClass ==
    /\ hpc = "setUpClass"
    /\ LET loaded == load_json_output(fileState, fileData)
           patterns == IF JSON_FILE_NAME \in DOMAIN all_expected
                       THEN all_expected[JSON_FILE_NAME] ELSE <<>>
       IN  /\ job_data_list' = loaded.ret
           /\ IF loaded.ret.kind = "none"
              THEN /\ classResult' = "TypeError"
                   /\ printed' = printed \cup loaded.diag
                   /\ hpc' = "exit"
                   /\ UNCHANGED <<consolidated_data, expected_patterns>>
              ELSE /\ consolidated_data' = job_data(loaded.ret.v, FIELDS_TO_CONSOLIDATE)
                   /\ expected_patterns' = patterns
                   /\ printed' = IF DOMAIN patterns = {}
                                 THEN printed \cup {"WARNING: No expected patterns found"}
                                 ELSE printed
                   /\ classResult' = "ok"
                   /\ hpc' = "test"
    /\ UNCHANGED <<fileState, fileData, expectedOnDisk, all_expected, results,
                   exitStatus>>
    /\ UNCHANGED <<nvars, cvars, evars>>

\* one test method: _evaluate_field on the next field of TestOrder
RunTest ==
    /\ hpc = "test"
    /\ Len(results) < NumTests
    /\ LET field_name == TestOrder[Len(results) + 1]
       IN  \E score \in ScoresFor(field_name, consolidated_data, expected_patterns) :
             LET r == evaluate_field(field_name, consolidated_data,
                                     expected_patterns, score)
             IN  /\ results' = Append(results, r)
                 /\ printed' = IF r.branch = "no_expectation"
                               THEN printed \cup {"Warning: No expected pattern defined"}
                               ELSE printed
    /\ UNCHANGED <<fileState, fileData, expectedOnDisk, all_expected, job_data_list,
                   consolidated_data, expected_patterns, classResult, exitStatus, hpc>>
    /\ UNCHANGED <<nvars, cvars, evars>>

\* runner.run(suite) returns, line 260
RunReturns ==
    /\ hpc = "test"
    /\ Len(results) = NumTests
    /\ hpc' = "exit"
    /\ UNCHANGED <<fileState, fileData, expectedOnDisk, all_expected, job_data_list,
                   consolidated_data, expected_patterns, classResult, results,
                   printed, exitStatus>>
    /\ UNCHANGED <<nvars, cvars, evars>>

\* the script ends after line 260: the result of the run is not read and
\* sys.exit is not called, so the interpreter exits with status 0
Exit ==
    /\ hpc = "exit"
    /\ exitStatus' = 0
    /\ hpc' = "done"
    /\ UNCHANGED <<fileState, fileData, expectedOnDisk, all_expected, job_data_list,
                   consolidated_data, expected_patterns, classResult, results,
                   printed>>
    /\ UNCHANGED <<nvars, cvars, evars>>

-----------------------------------------------------------------------------
(* JobPostingExtractor.extract_job_details, src/summarizer.py lines 46-124 *)

\* str.strip(chars)
RECURSIVE LStripChars(_, _)
LStripChars(t, chars) ==
    IF t # <<>> /\ Head(t) \in chars THEN LStripChars(Tail(t), chars) ELSE t

RECURSIVE RStripChars(_, _)
RStripChars(t, chars) ==
    IF t # <<>> /\ t[Len(t)] \in chars
    THEN RStripChars(SubSeq(t, 1, Len(t) - 1), chars) ELSE t

StripChars(t, chars) == RStripChars(LStripChars(t, chars), chars)

EndsWith(t, p) == Len(t) >= Len(p) /\ SubSeq(t, Len(t) - Len(p) + 1, Len(t)) = p

BACKTICK   == "U+0060"     \* the grave accent

FENCE      == <<BACKTICK, BACKTICK, BACKTICK>>
FENCE_JSON == <<BACKTICK, BACKTICK, BACKTICK, "j", "s", "o", "n">>

\* lines 100-103: the text returned for a message content that is not empty
Unfenced(message_content) ==
    IF StartsWith(message_content, FENCE_JSON) /\ EndsWith(message_content, FENCE)
    THEN Strip(StripChars(StripChars(message_content, {BACKTICK, "j", "s", "o", "n"}), {BACKTICK}))
    ELSE message_content

Returned(x) == [kind |-> "return", v |-> x, exc |-> "none"]
Raised(e)   == [kind |-> "raise", v |-> NoneV, exc |-> e]
Pending     == [kind |-> "pending", v |-> NoneV, exc |-> "none"]

MaxContentChunks == 3   \* a message content is at most this many chunks

ContentChunks == << FENCE_JSON, FENCE, <<"[", "]">>, <<NL>>, <<"n", "o">> >>

ContentText(idx) == Concat([i \in 1..Len(idx) |-> ContentChunks[idx[i]]])

\* message.get("content"): None, or a str
Contents ==
    {NoneV} \cup
    UNION { {StrV(ContentText(idx)) : idx \in [1..n -> 1..Len(ContentChunks)]}
            : n \in 0..MaxContentChunks }

\* response.json(): not JSON, or an object with its "choices"
Bodies ==
    { [kind |-> "invalid", choices |-> "missing", content |-> NoneV] } \cup
    { [kind |-> "object", choices |-> c, content |-> NoneV] : c \in {"missing", "empty"} } \cup
    { [kind |-> "object", choices |-> "one", content |-> c] : c \in Contents }

StatusPool == {200, 404, 500}

\* the local variable response before line 91 assigns it
Unbound ==
    [status_code |-> 0, body |-> [kind |-> "unbound", choices |-> "missing", content |-> NoneV]]

\* what requests.post may return
Responses == { [status_code |-> s, body |-> b] : s \in StatusPool, b \in Bodies }

ExtractInit ==
    /\ epc = "start"
    /\ pdfExists \in BOOLEAN
    /\ response = Unbound
    /\ result = Pending

\* extract_job_details is not called
ExtractOff == epc = "off" /\ pdfExists = FALSE /\ response = Unbound /\ result = Pending

\* lines 53-55: _encode_pdf_to_base64 returns None for a missing file
EncodePdf ==
    /\ epc = "start"
    /\ IF pdfExists
       THEN epc' = "post" /\ UNCHANGED result
       ELSE epc' = "done" /\ result' = Returned(NoneV)
    /\ UNCHANGED <<pdfExists, response>>
    /\ UNCHANGED <<nvars, cvars, hvars>>

\* line 91: requests.post returns a response, which binds the local variable
PostReturns ==
    /\ epc = "post"
    /\ \E r \in Responses : response' = r
    /\ epc' = "raise_for_status"
    /\ UNCHANGED <<pdfExists, result>>
    /\ UNCHANGED <<nvars, cvars, hvars>>

\* line 91: requests.post raises (a connection error, a timeout): the
\* assignment is not made and the local variable stays unbound
PostRaises ==
    /\ epc = "post"
    /\ epc' = "except_request"
    /\ UNCHANGED <<pdfExists, response, result>>
    /\ UNCHANGED <<nvars, cvars, hvars>>

\* line 92: raise_for_status raises HTTPError unless the status is below 400
RaiseForStatus ==
    /\ epc = "raise_for_status"
    /\ epc' = IF response.status_code >= 400 THEN "except_request" ELSE "json"
    /\ UNCHANGED <<pdfExists, response, result>>
    /\ UNCHANGED <<nvars, cvars, hvars>>

\* line 93: response.json() raises on a body that is not JSON; the error is
\* requests' JSONDecodeError, a RequestException and a json.JSONDecodeError,
\* or json's own in older versions of requests
ParseJson ==
    /\ epc = "json"
    /\ IF response.body.kind = "invalid"
       THEN epc' \in {"except_request", "except_json"}
       ELSE epc' = "choices"
    /\ UNCHANGED <<pdfExists, response, result>>
    /\ UNCHANGED <<nvars, cvars, hvars>>

\* lines 96-112
ExtractContent ==
    /\ epc = "choices"
    /\ LET body == response.body
       IN  result' =
             IF body.choices = "one"
             THEN IF body.content.kind = "str" /\ body.content.v # <<>>
                  THEN Returned(StrV(Unfenced(body.content.v)))
                  ELSE Returned(NoneV)
             ELSE Returned(NoneV)
    /\ epc' = "done"
    /\ UNCHANGED <<pdfExists, response>>
    /\ UNCHANGED <<nvars, cvars, hvars>>

\* lines 114-119: the handler reads the local variable response, which is
\* unbound when requests.post itself raised: UnboundLocalError
ExceptRequest ==
    /\ epc = "except_request"
    /\ result' = IF response = Unbound THEN Raised("UnboundLocalError")
                 ELSE Returned(NoneV)
    /\ epc' = "done"
    /\ UNCHANGED <<pdfExists, response>>
    /\ UNCHANGED <<nvars, cvars, hvars>>

\* lines 120-124: response is bound here, response.json() raised
ExceptJson ==
    /\ epc = "except_json"
    /\ result' = Returned(NoneV)
    /\ epc' = "done"
    /\ UNCHANGED <<pdfExists, response>>
    /\ UNCHANGED <<nvars, cvars, hvars>>

-----------------------------------------------------------------------------
(* Specifications *)

NormalizeNext == Normalize \/ Renormalize

SpecNormalizeInit == NormalizeInit /\ ConsolidateOff /\ RunOff /\ ExtractOff

\* normalize_value on every input of the model, and again on its result
SpecNormalize == SpecNormalizeInit /\ [][NormalizeNext]_vars

ConsolidateNext == Consolidate

SpecConsolidateInit == ConsolidateInit /\ NormalizeOff /\ RunOff /\ ExtractOff

\* job_data on every record list and field list of the model
SpecConsolidate == SpecConsolidateInit /\ [][ConsolidateNext]_vars

RunNext == Main \/ SetUpClass \/ RunTest \/ RunReturns \/ Exit

SpecRunInit == RunInit /\ NormalizeOff /\ ConsolidateOff /\ ExtractOff

\* accuracy.py run as a script
SpecRun == SpecRunInit /\ [][RunNext]_vars

ExtractNext ==
    \/ EncodePdf \/ PostReturns \/ PostRaises \/ RaiseForStatus
    \/ ParseJson \/ ExtractContent \/ ExceptRequest \/ ExceptJson

SpecExtractInit == ExtractInit /\ NormalizeOff /\ ConsolidateOff /\ RunOff

\* one call of extract_job_details
SpecExtract == SpecExtractInit /\ [][ExtractNext]_vars

-----------------------------------------------------------------------------
(* Properties of normalize_value, under SpecNormalize *)

\* C1: normalize_value is idempotent on scalars: for a str, a number or a
\* boolean x, normalize_value(normalize_value(x)) = normalize_value(x).
C1_IdempotentOnScalars ==
    npc = "renormalized" /\ value.kind \in ScalarKinds => out2 = out

\* a str holding "senior" that normalization rewrote, normalized twice
C1_Witness ==
    /\ npc = "renormalized"
    /\ value.kind = "str"
    /\ Contains(value.v, SENIOR)
    /\ Contains(out, <<"s", "r">>)
    /\ out # value.v

\* C2: for every str holding the rupee sign the output holds "rs" and no
\* rupee sign, and for every str holding the dollar sign the output holds
\* "usd" and no dollar sign.
C2_CurrencySubstituted ==
    npc # "input" /\ value.kind = "str" =>
        /\ Contains(value.v, <<RUPEE>>) =>
              Contains(out, <<"r", "s">>) /\ ~Contains(out, <<RUPEE>>)
        /\ Contains(value.v, <<"$">>) =>
              Contains(out, <<"u", "s", "d">>) /\ ~Contains(out, <<"$">>)

\* the normalized forms of the items that are not null and do not normalize
\* to the empty str
RECURSIVE NonEmptyNormalized(_)
NonEmptyNormalized(items) ==
    IF items = <<>> THEN <<>>
    ELSE (IF Head(items).kind # "none" /\ normalize_value(Head(items)) # <<>>
          THEN <<normalize_value(Head(items))>> ELSE <<>>)
         \o NonEmptyNormalized(Tail(items))

\* C10: for every list, normalize_value returns the normalized forms of its
\* items joined by one space, every item that is null or normalizes to the
\* empty str dropped: no leading, trailing or doubled space.
C10_ListDropsEmptyItems ==
    npc # "input" /\ value.kind = "list" =>
        /\ out = Join(NonEmptyNormalized(value.v), <<" ">>)
        /\ out = <<>> \/ (out[1] # " " /\ out[Len(out)] # " ")
        /\ ~Contains(out, <<" ", " ">>)

-----------------------------------------------------------------------------
(* Properties of job_data, under SpecConsolidate *)

\* the field normalizes to a str that is not empty in some record
RetainedSomewhere(f) ==
    \E i \in 1..Len(job_list) : normalize_value(Get(job_list[i], f)) # <<>>

\* C7: every key of the map job_data returns is a requested field and maps
\* to a str that is not empty; a field that is absent from, or normalizes to
\* the empty str in, every record is not a key.
C7_EmptyFieldsOmitted ==
    cpc = "done" =>
        /\ DOMAIN consolidated \subseteq Range(fields)
        /\ \A f \in DOMAIN consolidated : consolidated[f] # <<>>
        /\ \A f \in Range(fields) : ~RetainedSomewhere(f) => f \notin DOMAIN consolidated

\* one requested field is held by a record and normalizes to the empty str
\* in all of them, another is kept
C7_Witness ==
    /\ cpc = "done"
    /\ \E f \in Range(fields) :
         /\ f \notin DOMAIN consolidated
         /\ \E i \in 1..Len(job_list) :
              f \in DOMAIN job_list[i] /\ job_list[i][f].kind = "str"
    /\ DOMAIN consolidated # {}

\* the normalized values of field f that are not empty, in record order
RECURSIVE RetainedValues(_, _)
RetainedValues(jobs, f) ==
    IF jobs = <<>> THEN <<>>
    ELSE (IF normalize_value(Get(Head(jobs), f)) # <<>>
          THEN <<normalize_value(Get(Head(jobs), f))>> ELSE <<>>)
         \o RetainedValues(Tail(jobs), f)

\* C8: for every requested field, the value job_data returns for it is the
\* join by one space, in record order, of the normalized values of the field
\* that are not empty.
C8_JoinedInRecordOrder ==
    cpc = "done" =>
        \A f \in DOMAIN consolidated :
            consolidated[f] = Join(RetainedValues(job_list, f), <<" ">>)

\* records [{f: "a"}, {f: "b"}] give "a b"
C8_Witness ==
    /\ cpc = "done"
    /\ Len(job_list) = 2
    /\ "Company name" \in DOMAIN consolidated
    /\ consolidated["Company name"] = <<"a", " ", "b">>

-----------------------------------------------------------------------------
(* Properties of the run of accuracy.py, under SpecRun *)

\* C3: when the JSON output file is missing, malformed or not a list,
\* load_json_output returns None with a diagnostic and setUpClass, which
\* passes the result to job_data, completes without raising.
C3_LoadErrorsDoNotPropagate ==
    hpc \notin {"main", "setUpClass"} /\ fileState # "list" =>
        /\ job_data_list = NoneV
        /\ load_json_output(fileState, fileData).diag \subseteq printed
        /\ load_json_output(fileState, fileData).diag # {}
        /\ classResult = "ok"

\* C4: a field with no expected value raises no assertion, and what the
\* runner records for it differs from what it records for a field whose
\* comparison passed.
C4_NoExpectationIsDistinct ==
    \A i \in 1..Len(results) :
        results[i].branch = "no_expectation" =>
            /\ results[i].reported # "FAIL"
            /\ \A j \in 1..Len(results) :
                 results[j].branch = "compared" /\ ScorePasses(results[j].score)
                    => results[j].reported # results[i].reported

\* C5: the exit status of the run is a failure status exactly when a field
\* comparison failed.
C5_ExitStatusReflectsFailures ==
    hpc = "done" =>
        (exitStatus # 0 <=> \E i \in 1..Len(results) : results[i].reported = "FAIL")

\* consolidated_data.get(field, ""), whole
ConsolidatedValue(f) ==
    IF f \in DOMAIN consolidated_data THEN consolidated_data[f] ELSE <<>>

\* C9: a field with an expected value that is not empty passes exactly when
\* the token-set ratio of the whole consolidated str and the expected str is
\* at least the threshold, 50: a score of 49 fails and a score of 50 passes.
C9_PassesFromThreshold ==
    \A i \in 1..Len(results) :
        LET r == results[i]
            expects == r.field \in DOMAIN expected_patterns
                       /\ expected_patterns[r.field] # <<>>
        IN  /\ r.branch = "compared" <=> expects
            /\ expects =>
                 /\ r.ratioArgs = <<ConsolidatedValue(r.field), expected_patterns[r.field]>>
                 /\ r.score \in RatioOutcomes(r.ratioArgs[1], r.ratioArgs[2])
                 /\ r.reported = "ok" <=> r.score >= 50
                 /\ r.reported = "FAIL" <=> r.score <= 49

\* one field failed with a score of 49 and another passed with a score of 50
C9_Witness ==
    \E i, j \in 1..Len(results) :
        /\ results[i].branch = "compared" /\ results[i].score = 49
        /\ results[i].reported = "FAIL"
        /\ results[j].branch = "compared" /\ results[j].score = 50
        /\ results[j].reported = "ok"

-----------------------------------------------------------------------------
(* Properties of extract_job_details, under SpecExtract *)

\* the call met one of the failures: no PDF file, a network error, a status
\* that is not 2xx, no choices, or a content that is empty
ExtractionFailed ==
    \/ ~pdfExists
    \/ response = Unbound
    \/ /\ response # Unbound
       /\ \/ response.status_code >= 400
          \/ response.body.kind = "invalid"
          \/ response.body.choices # "one"
          \/ response.body.content.kind = "none"
          \/ response.body.content.v = <<>>

\* C6: extract_job_details never raises: it returns None on every failure,
\* and the message content otherwise.
C6_FailuresReturnNone ==
    epc = "done" =>
        /\ result.kind = "return"
        /\ ExtractionFailed => result.v = NoneV
        /\ ~ExtractionFailed => result.v = StrV(Unfenced(response.body.content.v))

====
